---- MODULE Spec2Model ----
(***************************************************************************)
(* UpdateNotifier (src/src/update_notifier.py): a once-a-day check of a    *)
(* package's latest version in a feed against the installed version.       *)
(*                                                                         *)
(* Text (file contents, version strings) is a sequence of one-character    *)
(* strings, so that parsing and formatting are computed, not assumed.      *)
(* An optional value (str | None) is a sequence of length 0 or 1.          *)
(***************************************************************************)
EXTENDS Integers, Sequences, FiniteSets, TLC

VARIABLES
    file,             \* the throttle file: [kind, content]
    today,            \* datetime.date.today(): [y, m, d]
    ticks,            \* midnights passed since the start (bounded by MaxTicks)
    DEBUG,            \* UpdateNotifier.DEBUG, the class-level flag
    feed_client,      \* self._feed_client: "None" or "client"
    pc,               \* position inside check_for_update()
    latest_version,   \* local of check_for_update: None or Some(text)
    current_version,  \* local of check_for_update: None or Some(text)
    gate,             \* what _should_check() answered in the current call
    current_date,     \* local of _should_check: None or Some(date)
    feed_id,          \* value returned by _get_feed_id(): None or Some(id)
    out,              \* lines printed by the current call
    log,              \* collaborators called by the current call, in order
    file0,            \* the throttle file as it was when the current call began
    shown,            \* version messages printed on the current day (saturating)
    save_failed       \* a write of the throttle file failed on the current day

vars == <<file, today, ticks, DEBUG, feed_client, pc, latest_version,
          current_version, gate, current_date, feed_id, out, log, file0,
          shown, save_failed>>

\* ---------------------------------------------------------------- bounds

MaxTicks == 3

MaxShown == 2

\* ------------------------------------------------------------ text helpers

None == <<>>

Some(v) == <<v>>

Digits == {"0", "1", "2", "3", "4", "5", "6", "7", "8", "9"}

DigitVal == [c \in Digits |->
    CASE c = "0" -> 0 [] c = "1" -> 1 [] c = "2" -> 2 [] c = "3" -> 3
      [] c = "4" -> 4 [] c = "5" -> 5 [] c = "6" -> 6 [] c = "7" -> 7
      [] c = "8" -> 8 [] c = "9" -> 9]

DigitChar == [n \in 0..9 |-> CHOOSE c \in Digits : DigitVal[c] = n]

Whitespace == {" ", "\n", "\t"}

IsDigits(s) == Len(s) > 0 /\ \A i \in 1..Len(s) : s[i] \in Digits

RECURSIVE ToInt(_)
\* int() of a run of decimal digits
ToInt(s) ==
    IF Len(s) = 0 THEN 0
    ELSE 10 * ToInt(SubSeq(s, 1, Len(s) - 1)) + DigitVal[s[Len(s)]]

RECURSIVE Strip(_)
\* str.strip(): leading and trailing whitespace removed
Strip(s) ==
    IF Len(s) = 0 THEN s
    ELSE IF s[1] \in Whitespace THEN Strip(Tail(s))
    ELSE IF s[Len(s)] \in Whitespace THEN Strip(SubSeq(s, 1, Len(s) - 1))
    ELSE s

RECURSIVE Split(_, _)
\* s.split(sep) for a one-character separator: always at least one field
Split(s, sep) ==
    IF \A i \in 1..Len(s) : s[i] # sep THEN <<s>>
    ELSE LET k == CHOOSE i \in 1..Len(s) :
                      s[i] = sep /\ \A j \in 1..(i - 1) : s[j] # sep
         IN <<SubSeq(s, 1, k - 1)>> \o Split(SubSeq(s, k + 1, Len(s)), sep)

\* ------------------------------------------------------------ calendar

IsLeap(y) == y % 4 = 0 /\ (y % 100 # 0 \/ y % 400 = 0)

DaysInMonth(y, m) ==
    IF m = 2 THEN (IF IsLeap(y) THEN 29 ELSE 28)
    ELSE IF m \in {4, 6, 9, 11} THEN 30 ELSE 31

RECURSIVE DaysBeforeMonth(_, _)
DaysBeforeMonth(y, m) ==
    IF m = 1 THEN 0 ELSE DaysBeforeMonth(y, m - 1) + DaysInMonth(y, m - 1)

\* date.toordinal(): 0001-01-01 is day 1
ToOrdinal(dt) ==
    LET y1 == dt.y - 1
    IN y1 * 365 + (y1 \div 4) - (y1 \div 100) + (y1 \div 400)
       + DaysBeforeMonth(dt.y, dt.m) + dt.d

\* (a - b).days
DaysBetween(a, b) == ToOrdinal(a) - ToOrdinal(b)

\* the date after dt
NextDay(dt) ==
    IF dt.d < DaysInMonth(dt.y, dt.m) THEN [dt EXCEPT !.d = dt.d + 1]
    ELSE IF dt.m < 12 THEN [y |-> dt.y, m |-> dt.m + 1, d |-> 1]
    ELSE [y |-> dt.y + 1, m |-> 1, d |-> 1]

\* n zero-padded to two digits (%m, %d of strftime)
Pad2(n) == <<DigitChar[n \div 10], DigitChar[n % 10]>>

\* n zero-padded to four digits (%Y of strftime, years 1000..9999)
Pad4(n) == <<DigitChar[n \div 1000], DigitChar[(n \div 100) % 10],
             DigitChar[(n \div 10) % 10], DigitChar[n % 10]>>

\* a plausible slip: the format "%Y-%d-%m", day and month exchanged
Strftime_swapped(dt) == Pad4(dt.y) \o <<"-">> \o Pad2(dt.d) \o <<"-">> \o Pad2(dt.m)

\* n in decimal without padding, n < 100
Dec(n) == IF n < 10 THEN <<DigitChar[n]>> ELSE Pad2(n)

\* a plausible slip: month and day written without zero padding
Strftime_unpadded(dt) == Pad4(dt.y) \o <<"-">> \o Dec(dt.m) \o <<"-">> \o Dec(dt.d)

\* date.strftime("%Y-%m-%d")
Strftime(dt) == Pad4(dt.y) \o <<"-">> \o Pad2(dt.m) \o <<"-">> \o Pad2(dt.d)

\* %m of strptime: 1[0-2] | 0[1-9] | [1-9]
MonthField(s) == Len(s) \in {1, 2} /\ IsDigits(s) /\ ToInt(s) \in 1..12

\* %d of strptime: 3[01] | [12]\d | 0[1-9] | [1-9] | " "[1-9]
DayField(s) ==
    \/ Len(s) \in {1, 2} /\ IsDigits(s) /\ ToInt(s) \in 1..31
    \/ Len(s) = 2 /\ s[1] = " " /\ s[2] \in (Digits \ {"0"})

\* datetime.strptime(s, "%Y-%m-%d").date(): Some(date), or None for ValueError
Strptime(s) ==
    LET f == Split(s, "-")
    IN IF Len(f) = 3 /\ Len(f[1]) = 4 /\ IsDigits(f[1])
          /\ MonthField(f[2]) /\ DayField(f[3])
       THEN LET y == ToInt(f[1])
                m == ToInt(f[2])
                d == ToInt(Strip(f[3]))
            IN IF y >= 1 /\ d <= DaysInMonth(y, m)
               THEN Some([y |-> y, m |-> m, d |-> d])
               ELSE None
       ELSE None

\* ------------------------------------------------------------ versions
\* packaging.version.parse, for versions made of a release segment only
\* (N(.N)*); every version text the model feeds it is either of that form or
\* rejected by PEP 440 altogether.

\* the release tuple: Some(<<n1, n2, ...>>), or None for InvalidVersion
VersionParse(s) ==
    LET f == Split(s, ".")
    IN IF \A i \in 1..Len(f) : IsDigits(f[i])
       THEN Some([i \in 1..Len(f) |-> ToInt(f[i])])
       ELSE None

RECURSIVE StripZeros(_)
\* the comparison key drops the release's trailing zeros (1.0 == 1.0.0)
StripZeros(r) ==
    IF Len(r) > 0 /\ r[Len(r)] = 0 THEN StripZeros(SubSeq(r, 1, Len(r) - 1))
    ELSE r

RECURSIVE TupleLess(_, _)
\* Python's tuple ordering: first difference decides, a proper prefix is less
TupleLess(a, b) ==
    IF Len(b) = 0 THEN FALSE
    ELSE IF Len(a) = 0 THEN TRUE
    ELSE IF a[1] # b[1] THEN a[1] < b[1]
    ELSE TupleLess(Tail(a), Tail(b))

CharCode == [c \in Digits \cup {".", "x"} |->
    IF c = "." THEN 46 ELSE IF c = "x" THEN 120 ELSE 48 + DigitVal[c]]

\* what a plain string comparison of the two version texts would answer
StringGE(cur, latest) ==
    ~TupleLess([i \in 1..Len(cur) |-> CharCode[cur[i]]],
               [i \in 1..Len(latest) |-> CharCode[latest[i]]])

\* version.parse(cur) >= version.parse(latest), both parseable
VersionGE(cur, latest) ==
    ~TupleLess(StripZeros(VersionParse(cur)[1]), StripZeros(VersionParse(latest)[1]))

\* ------------------------------------------------------------ configuration

\* self.feed_name and self.package_name, fixed at construction
feed_name == "feed"

package_name == "pkg"

\* the first date of the run; the run crosses the end of February of a leap year
StartDay == [y |-> 2024, m |-> 2, d |-> 28]

\* ------------------------------------------------------------ inputs

T(kind, content) == [kind |-> kind, content |-> content]

\* what the throttle file may hold when the run starts
InitFiles ==
    {T("missing", <<>>), T("unreadable", <<>>), T("undecodable", <<>>)}
    \cup {T("text", c) : c \in {
        <<"2", "0", "2", "4", "-", "0", "2", "-", "2", "5">>,
        <<"2", "0", "2", "4", "-", "0", "2", "-", "2", "6">>,
        <<"2", "0", "2", "4", "-", "0", "2", "-", "2", "7">>,
        <<"2", "0", "2", "4", "-", "0", "2", "-", "2", "8">>,
        <<"2", "0", "2", "4", "-", "0", "2", "-", "2", "9">>,
        <<"2", "0", "2", "4", "-", "0", "3", "-", "0", "1">>,
        <<"2", "0", "2", "4", "-", "0", "3", "-", "0", "4">>,
        <<"2", "0", "2", "4", "-", "0", "2", "-", "2", "7", "\n">>,
        <<" ", "2", "0", "2", "4", "-", "0", "2", "-", "2", "6">>,
        <<"2", "0", "2", "4", "-", "2", "-", "2", "8">>,
        <<"2", "0", "2", "4", "-", "3", "-", "1">>,
        <<"2", "0", "2", "4", "-", "0", "3", "-", " ", "1">>,
        <<"2", "0", "2", "4", "-", "0", "2", "-", "3", "0">>,
        <<"2", "0", "2", "3", "-", "0", "2", "-", "2", "9">>,
        <<"2", "0", "2", "4", "-", "1", "3", "-", "0", "1">>,
        <<"2", "4", "-", "0", "2", "-", "2", "7">>,
        <<"2", "0", "2", "4", "-", "0", "2", "-", "2", "7", "x">>,
        <<"2", "0", "2", "4", "0", "2", "2", "7">>,
        <<"x">>,
        <<>>}}

V100 == <<"1", ".", "0", ".", "0">>

V10 == <<"1", ".", "0">>

V120 == <<"1", ".", "2", ".", "0">>

V190 == <<"1", ".", "9", ".", "0">>

V1100 == <<"1", ".", "1", "0", ".", "0">>

V200 == <<"2", ".", "0", ".", "0">>

VBad == <<"x">>

Ver(v, latest) == [version |-> v, is_latest |-> latest]

\* package.versions as the service may report it
VersionLists == {
    <<>>,
    <<Ver(V100, FALSE)>>,
    <<Ver(V100, TRUE)>>,
    <<Ver(V100, FALSE), Ver(V120, TRUE)>>,
    <<Ver(V1100, TRUE), Ver(V190, FALSE)>>,
    <<Ver(V190, TRUE), Ver(V200, TRUE)>>,
    <<Ver(VBad, TRUE)>>}

Pkg(n, vs) == [name |-> n, versions |-> vs]

\* what get_packages(package_name_query=...) may return: names containing the query
PackageLists ==
    {<<>>, <<Pkg("pkg-extra", <<Ver(V200, TRUE)>>)>>}
    \cup {<<Pkg("pkg", vs)>> : vs \in VersionLists}
    \cup {<<Pkg("pkg-extra", <<Ver(V200, TRUE)>>), Pkg("pkg", vs)>> : vs \in VersionLists}

Feed(n, i) == [name |-> n, id |-> i]

\* what get_feeds(project=...) may return
FeedLists == {
    <<>>,
    <<Feed("other", "id-other")>>,
    <<Feed("feed", "id-1")>>,
    <<Feed("other", "id-other"), Feed("feed", "id-1")>>,
    <<Feed("feed", "id-1"), Feed("feed", "id-2")>>}

\* Distribution.from_name(...).version of the installed package
InstalledVersions == {V100, V10, V190, V1100, V200, VBad}

Line(kind, a, b) == [kind |-> kind, a |-> a, b |-> b]

Boundary == {"idle", "returned", "raised"}

\* ------------------------------------------------------------ pure steps

\* a plausible slip: every day after the recorded one counts as elapsed
Elapsed_ge1(days) == days >= 1

\* the comparison of _should_check: more than one day has passed
Elapsed(days) == days > 1

\* _should_check: "True", "False", or the exception that leaves it
should_check(f, t) ==
    IF f.kind = "missing" THEN "True"
    ELSE IF f.kind = "unreadable" THEN "PermissionError"
    ELSE IF f.kind = "undecodable" THEN "UnicodeDecodeError"
    ELSE LET file_date == Strptime(Strip(f.content))
         IN IF file_date = None THEN "True"
            ELSE IF Elapsed(DaysBetween(t, file_date[1])) THEN "True"
            ELSE "False"

\* the branches of _should_check that print under DEBUG
should_check_debug(f) ==
    \/ f.kind = "missing"
    \/ f.kind = "text" /\ Strptime(Strip(f.content)) = None

\* the service's answer holds a feed of that name
HasFeedNamed(feed_list, name) == name \in {feed_list[i].name : i \in 1..Len(feed_list)}

\* a plausible slip: the first feed is taken whatever its name
FindFeed_first(feed_list, name) ==
    IF Len(feed_list) > 0 THEN Some(feed_list[1].id) ELSE None

\* the loop of _get_feed_id: the id of the first feed of that name
FindFeed(feed_list, name) ==
    IF \E i \in 1..Len(feed_list) : feed_list[i].name = name
    THEN Some(feed_list[CHOOSE i \in 1..Len(feed_list) :
                      /\ feed_list[i].name = name
                      /\ \A j \in 1..(i - 1) : feed_list[j].name # name].id)
    ELSE None

\* the loop of _get_package_info: the first package of that name
FindPackage(packages, name) ==
    IF \E i \in 1..Len(packages) : packages[i].name = name
    THEN Some(packages[CHOOSE i \in 1..Len(packages) :
                         /\ packages[i].name = name
                         /\ \A j \in 1..(i - 1) : packages[j].name # name])
    ELSE None

\* the loop of _get_latest_version: the first version flagged is_latest
LatestOf(versions) ==
    IF \E i \in 1..Len(versions) : versions[i].is_latest
    THEN Some(versions[CHOOSE i \in 1..Len(versions) :
                         /\ versions[i].is_latest
                         /\ \A j \in 1..(i - 1) : ~versions[j].is_latest].version)
    ELSE None

\* a line, followed by the exception's text when DEBUG is set
WithDebug(lines) == IF DEBUG THEN lines \o <<Line("debug", <<>>, <<>>)>> ELSE lines

\* the message check_for_update prints for two parseable versions
Message(cur, latest) ==
    IF VersionGE(cur, latest)
    THEN <<Line("uptodate", cur, <<>>)>>
    ELSE <<Line("upgrade", cur, latest), Line("pip", package_name, latest)>>

\* ------------------------------------------------------------ the state machine

Init ==
    /\ file \in InitFiles
    /\ today = StartDay
    /\ ticks = 0
    /\ DEBUG \in BOOLEAN
    /\ feed_client = "None"
    /\ pc = "idle"
    /\ latest_version = None
    /\ current_version = None
    /\ gate = "none"
    /\ current_date = None
    /\ feed_id = None
    /\ out = <<>>
    /\ log = <<>>
    /\ file0 = file
    /\ shown = 0
    /\ save_failed = FALSE

\* a plausible slip: the answer of _should_check() is not honoured
Gate_ungated(r) ==
    IF r \in {"True", "False"} THEN "client_1" ELSE "raised"

\* where check_for_update goes on what _should_check() answered
Gate(r) ==
    IF r = "True" THEN "client_1" ELSE IF r = "False" THEN "returned" ELSE "raised"

\* check_for_update is entered and evaluates _should_check()
ShouldCheck ==
    /\ pc \in Boundary
    /\ LET r == should_check(file, today)
       IN /\ pc' = Gate(r)
          /\ gate' = r
          /\ out' = IF DEBUG /\ should_check_debug(file)
                    THEN <<Line("debug", <<>>, <<>>)>> ELSE <<>>
    /\ current_date' = IF file.kind = "text" /\ Strptime(Strip(file.content)) # None
                       THEN Some(today) ELSE None
    /\ log' = <<>>
    /\ file0' = file
    /\ latest_version' = None
    /\ current_version' = None
    /\ feed_id' = None
    /\ UNCHANGED <<file, today, ticks, DEBUG, feed_client, shown, save_failed>>

\* a plausible slip: the cached client is not consulted
get_feed_client_uncached(next) ==
    /\ \E cred \in {"password", "none"} :
         IF cred = "none"
         THEN /\ log' = Append(log, "get_credential")
              /\ feed_client' = feed_client
              /\ pc' = "except"
         ELSE /\ log' = log \o <<"get_credential", "connect">>
              /\ feed_client' = "client"
              /\ pc' = next
    /\ UNCHANGED <<file, today, ticks, DEBUG, latest_version, current_version,
                   gate, current_date, feed_id, out, file0, shown,
                   save_failed>>

\* _get_feed_client(), continuing at position next
get_feed_client(next) ==
    /\ IF feed_client = "None"
       THEN \E cred \in {"password", "none"}, conn \in {"ok", "error"} :
              IF cred = "none"
              THEN /\ log' = Append(log, "get_credential")
                   /\ feed_client' = feed_client
                   /\ pc' = "except"
              ELSE IF conn = "error"
              THEN /\ log' = log \o <<"get_credential", "connect">>
                   /\ feed_client' = feed_client
                   /\ pc' = "except"
              ELSE /\ log' = log \o <<"get_credential", "connect">>
                   /\ feed_client' = "client"
                   /\ pc' = next
       ELSE /\ log' = log
            /\ feed_client' = feed_client
            /\ pc' = next
    /\ UNCHANGED <<file, today, ticks, DEBUG, latest_version, current_version,
                   gate, current_date, feed_id, out, file0, shown,
                   save_failed>>

\* the _get_feed_client() of _get_package_info, evaluated before its arguments
PackageInfoClient == pc = "client_1" /\ get_feed_client("client_2")

\* the _get_feed_client() of _get_feed_id
FeedIdClient == pc = "client_2" /\ get_feed_client("get_feeds")

\* the rest of _get_feed_id: get_feeds and the search by name
GetFeedId ==
    /\ pc = "get_feeds"
    /\ \E ok \in BOOLEAN, feeds \in FeedLists :
         LET found == IF ok THEN FindFeed(feeds, feed_name) ELSE None
         IN /\ feed_id' = found
            /\ pc' = IF found = None THEN "except" ELSE "get_packages"
            /\ log' = Append(log, IF ~ok THEN "get_feeds_error"
                                  ELSE IF HasFeedNamed(feeds, feed_name)
                                  THEN "get_feeds" ELSE "get_feeds_nomatch")
    /\ UNCHANGED <<file, today, ticks, DEBUG, feed_client, latest_version,
                   current_version, gate, current_date, out, file0, shown,
                   save_failed>>

\* the rest of _get_package_info, and _get_latest_version on its result
GetLatestVersion ==
    /\ pc = "get_packages"
    /\ \E ok \in BOOLEAN, packages \in PackageLists :
         LET package == IF ok THEN FindPackage(packages, package_name) ELSE None
         IN IF package = None
            THEN /\ pc' = "except"
                 /\ latest_version' = latest_version
            ELSE /\ pc' = "get_current"
                 /\ latest_version' = LatestOf(package[1].versions)
    /\ log' = Append(log, "get_packages")
    /\ UNCHANGED <<file, today, ticks, DEBUG, feed_client, current_version,
                   gate, current_date, feed_id, out, file0, shown,
                   save_failed>>

\* a plausible slip: the failed lookup is not caught in _get_current_version
GetCurrentVersion_raises ==
    /\ pc = "get_current"
    /\ \E found \in BOOLEAN, v \in InstalledVersions :
         IF found
         THEN /\ current_version' = Some(v)
              /\ pc' = "compare"
         ELSE /\ current_version' = None
              /\ pc' = "except"
    /\ log' = Append(log, "from_name")
    /\ UNCHANGED <<file, today, ticks, DEBUG, feed_client, latest_version,
                   gate, current_date, feed_id, out, file0, shown, save_failed>>

\* _get_current_version
GetCurrentVersion ==
    /\ pc = "get_current"
    /\ \E found \in BOOLEAN, v \in InstalledVersions :
         IF found
         THEN /\ current_version' = Some(v)
              /\ out' = out
         ELSE /\ current_version' = None
              /\ out' = out \o WithDebug(<<Line("warn_current", package_name, <<>>)>>)
    /\ log' = Append(log, "from_name")
    /\ pc' = "compare"
    /\ UNCHANGED <<file, today, ticks, DEBUG, feed_client, latest_version,
                   gate, current_date, feed_id, file0, shown, save_failed>>

\* the comparison and the message of check_for_update
Compare ==
    /\ pc = "compare"
    /\ IF current_version = None \/ latest_version = None
       THEN /\ pc' = "returned"
            /\ UNCHANGED <<out, shown>>
       ELSE IF VersionParse(current_version[1]) = None
               \/ VersionParse(latest_version[1]) = None
       THEN /\ pc' = "except"
            /\ UNCHANGED <<out, shown>>
       ELSE /\ pc' = "update"
            /\ out' = out \o Message(current_version[1], latest_version[1])
            /\ shown' = IF shown < MaxShown THEN shown + 1 ELSE shown
    /\ UNCHANGED <<file, today, ticks, DEBUG, feed_client, latest_version,
                   current_version, gate, current_date, feed_id, log,
                   file0, save_failed>>

\* a plausible slip: the I/O error is not caught in _update_last_checked
UpdateLastChecked_propagates ==
    /\ pc = "update"
    /\ \E res \in {"ok", "fail_open", "fail_write"} :
         IF res = "ok"
         THEN /\ file' = T("text", Strftime(today))
              /\ log' = Append(log, "write")
              /\ save_failed' = save_failed
              /\ pc' = "returned"
         ELSE /\ file' = IF res = "fail_open" THEN file ELSE T("text", <<>>)
              /\ log' = Append(log, "write_failed")
              /\ save_failed' = TRUE
              /\ pc' = "except"
    /\ UNCHANGED <<today, ticks, DEBUG, feed_client, latest_version,
                   current_version, gate, current_date, feed_id, file0,
                   shown, out>>

\* _update_last_checked
UpdateLastChecked ==
    /\ pc = "update"
    /\ \E res \in {"ok", "fail_open", "fail_write"} :
         IF res = "ok"
         THEN /\ file' = T("text", Strftime(today))
              /\ out' = out
              /\ log' = Append(log, "write")
              /\ save_failed' = save_failed
         ELSE /\ file' = IF res = "fail_open" THEN file ELSE T("text", <<>>)
              /\ out' = out \o WithDebug(<<Line("warn_save", <<>>, <<>>)>>)
              /\ log' = Append(log, "write_failed")
              /\ save_failed' = TRUE
    /\ pc' = "returned"
    /\ UNCHANGED <<today, ticks, DEBUG, feed_client, latest_version,
                   current_version, gate, current_date, feed_id, file0,
                   shown>>

\* the except clause of check_for_update
Handler ==
    /\ pc = "except"
    /\ out' = out \o WithDebug(<<Line("error", package_name, <<>>)>>)
    /\ pc' = "returned"
    /\ UNCHANGED <<file, today, ticks, DEBUG, feed_client, latest_version,
                   current_version, gate, current_date, feed_id, log,
                   file0, shown, save_failed>>

\* midnight passes
Tick ==
    /\ ticks < MaxTicks
    /\ ticks' = ticks + 1
    /\ today' = NextDay(today)
    /\ shown' = 0
    /\ save_failed' = FALSE
    /\ UNCHANGED <<file, DEBUG, feed_client, pc, latest_version, current_version,
                   gate, current_date, feed_id, out, log, file0>>

\* __init__: a fresh instance over the same throttle file
NewInstance ==
    /\ pc \in Boundary
    /\ feed_client' = "None"
    /\ pc' = "idle"
    /\ latest_version' = None
    /\ current_version' = None
    /\ gate' = "none"
    /\ current_date' = None
    /\ feed_id' = None
    /\ out' = <<>>
    /\ log' = <<>>
    /\ file0' = file
    /\ UNCHANGED <<file, today, ticks, DEBUG, shown, save_failed>>

Next ==
    \/ ShouldCheck
    \/ PackageInfoClient
    \/ FeedIdClient
    \/ GetFeedId
    \/ GetLatestVersion
    \/ GetCurrentVersion
    \/ Compare
    \/ UpdateLastChecked
    \/ Handler
    \/ Tick
    \/ NewInstance

Spec == Init /\ [][Next]_vars

\* ------------------------------------------------------------ properties

\* the positions in out of the lines of one kind
Kinds(k) == {i \in 1..Len(out) : out[i].kind = k}

\* the up-to-date / upgrade-available messages of the current call
VersionMessages == Kinds("uptodate") \cup Kinds("upgrade")

Logged(e) == \E i \in 1..Len(log) : log[i] = e

LastLogged(e) == Len(log) > 0 /\ log[Len(log)] = e

\* the throttle file of the current call held no date _should_check could parse
Unparseable(f) == f.kind = "text" /\ Strptime(Strip(f.content)) = None

\* what _should_check itself printed in the current call
CheckLines ==
    IF DEBUG /\ (file0.kind = "missing" \/ Unparseable(file0))
    THEN <<Line("debug", <<>>, <<>>)>> ELSE <<>>

\* text is exactly dt as YYYY-MM-DD: ten characters, zero-padded fields
IsIsoOf(text, dt) ==
    /\ Len(text) = 10
    /\ text[5] = "-" /\ text[8] = "-"
    /\ \A i \in {1, 2, 3, 4, 6, 7, 9, 10} : text[i] \in Digits
    /\ ToInt(SubSeq(text, 1, 4)) = dt.y
    /\ ToInt(SubSeq(text, 6, 7)) = dt.m
    /\ ToInt(SubSeq(text, 9, 10)) = dt.d

\* the date a strictly formed YYYY-MM-DD text denotes: Some(date), else None
StrictDate(text) ==
    IF /\ Len(text) = 10
       /\ text[5] = "-" /\ text[8] = "-"
       /\ \A i \in {1, 2, 3, 4, 6, 7, 9, 10} : text[i] \in Digits
    THEN LET y == ToInt(SubSeq(text, 1, 4))
             m == ToInt(SubSeq(text, 6, 7))
             d == ToInt(SubSeq(text, 9, 10))
         IN IF y >= 1 /\ m \in 1..12 /\ d >= 1 /\ d <= DaysInMonth(y, m)
            THEN Some([y |-> y, m |-> m, d |-> d])
            ELSE None
    ELSE None

\* version precedence of two release-only versions, stated field by field:
\* missing fields count as 0, and the first differing field decides
NewerOrEqual(cur, latest) ==
    LET a == Split(cur, ".")
        b == Split(latest, ".")
        n == IF Len(a) > Len(b) THEN Len(a) ELSE Len(b)
        A(i) == IF i <= Len(a) THEN ToInt(a[i]) ELSE 0
        B(i) == IF i <= Len(b) THEN ToInt(b[i]) ELSE 0
    IN \A i \in 1..n : A(i) < B(i) => \E j \in 1..(i - 1) : A(j) > B(j)

\* ------------------------------------------------------------ claims

\* C1: check_for_update() never raises past the top level, whatever the state
\* of the throttle file and whatever the collaborators answer.
C1_NeverRaises == pc # "raised"

\* C2: a throttled call (the file holds a parseable date and _should_check()
\* answers False) returns at once: no collaborator is called, nothing is
\* printed, the throttle file is as it was.  A call that finds the file missing
\* or unparseable is never throttled and never fails there: it goes on to the
\* lookup, whose first step is the credential store or, with a cached client,
\* the feed service.
C2_ThrottleGates ==
    /\ gate = "False" =>
         /\ file0.kind = "text" /\ ~Unparseable(file0)
         /\ pc = "returned"
         /\ log = <<>>
         /\ out = <<>>
         /\ file = file0
    /\ (gate # "none" /\ (file0.kind = "missing" \/ Unparseable(file0))) =>
         /\ gate = "True"
         /\ pc # "raised"
         /\ pc = "returned" =>
              /\ Len(log) > 0
              /\ log[1] \in {"get_credential", "get_feeds", "get_feeds_nomatch",
                             "get_feeds_error"}

\* a call made on the very day the throttle file records was throttled
C2_Witness ==
    /\ gate = "False"
    /\ pc = "returned"
    /\ ticks > 0
    /\ file0 = T("text", Strftime(today))

C4_WrittenAfterComparison ==
    [][(pc = "update" /\ pc' = "returned") =>
         (file'.kind = "text" /\ IsIsoOf(file'.content, today))]_vars

\* C4 as amended: the write is attempted exactly when both versions were resolved
\* and the comparison printed its message; a write that succeeds leaves today's
\* date as YYYY-MM-DD, a write that fails leaves the file as it was or empty;
\* in every other call the file is left unchanged.
C4_WriteExactlyAfterComparison ==
    /\ [](pc \in {"returned", "raised"} =>
            /\ (Logged("write") \/ Logged("write_failed")) <=>
                  (/\ current_version # None
                   /\ latest_version # None
                   /\ VersionMessages # {})
            /\ ~(Logged("write") \/ Logged("write_failed")) => file = file0)
    /\ [][/\ (pc = "update" /\ pc' = "returned" /\ LastLogged("write")') =>
               (file'.kind = "text" /\ IsIsoOf(file'.content, today))
          /\ (pc = "update" /\ pc' = "returned" /\ LastLogged("write_failed")') =>
               (file' = file \/ file' = T("text", <<>>))
          /\ (pc = "update" /\ pc' = "returned") =>
               (LastLogged("write")' \/ LastLogged("write_failed")')
          /\ pc # "update" => file' = file]_vars

\* an upgrade was reported on the second day and that day's date was written
C4_Witness ==
    /\ pc = "returned"
    /\ Logged("write")
    /\ Kinds("upgrade") # {}
    /\ ticks = 1
    /\ file = T("text", <<"2", "0", "2", "4", "-", "0", "2", "-", "2", "9">>)

\* C5: with both versions resolved exactly one message is printed, chosen by
\* version precedence: up-to-date with the current version when current >=
\* latest, otherwise "current -> latest" followed by the pip command for the
\* latest version.
C5_MessageByPrecedence ==
    pc = "update" =>
        LET cur == current_version[1]
            lat == latest_version[1]
            n == Len(out)
        IN IF NewerOrEqual(cur, lat)
           THEN /\ Kinds("uptodate") = {n}
                /\ Kinds("upgrade") = {} /\ Kinds("pip") = {}
                /\ out[n] = Line("uptodate", cur, <<>>)
           ELSE /\ Kinds("uptodate") = {}
                /\ Kinds("upgrade") = {n - 1} /\ Kinds("pip") = {n}
                /\ out[n - 1] = Line("upgrade", cur, lat)
                /\ out[n] = Line("pip", package_name, lat)

\* 1.10.0 installed against 1.9.0 latest was reported up to date
C5_Witness ==
    /\ pc = "update"
    /\ current_version = Some(V1100)
    /\ latest_version = Some(V190)
    /\ Kinds("uptodate") # {}

\* C6: when the local distribution lookup fails, a warning is printed there, the
\* current version is unknown, no version message is printed, nothing reaches
\* the top-level handler and the call returns with the throttle file untouched.
C6_LocalLookupFailure ==
    (LastLogged("from_name") /\ current_version = None) =>
        /\ pc \in {"compare", "returned"}
        /\ Kinds("warn_current") # {}
        /\ VersionMessages = {}
        /\ Kinds("error") = {}
        /\ file = file0

\* the latest version was found, the local lookup failed, the call returned
C6_Witness ==
    /\ pc = "returned"
    /\ LastLogged("from_name")
    /\ current_version = None
    /\ latest_version # None

\* C7 as stated: when no feed returned by the service bears the configured
\* name, check_for_update() prints a single error line and returns.
C7_SingleErrorLine ==
    (LastLogged("get_feeds_nomatch") /\ pc = "returned") =>
        out = CheckLines \o <<Line("error", package_name, <<>>)>>

\* C7 as amended: the lookup failure is caught by the top-level handler, which
\* prints the one error line, followed by the exception's text only when DEBUG
\* is set; nothing propagates, and no package lookup, local version lookup or
\* version message takes place.
C7_ErrorLineAndDebugDetail ==
    LastLogged("get_feeds_nomatch") =>
        /\ pc \in {"except", "returned"}
        /\ feed_id = None
        /\ latest_version = None /\ current_version = None
        /\ file = file0
        /\ pc = "returned" =>
             out = CheckLines \o
                   (IF DEBUG
                    THEN <<Line("error", package_name, <<>>), Line("debug", <<>>, <<>>)>>
                    ELSE <<Line("error", package_name, <<>>)>>)

\* the service listed feeds, none of the configured name; the call returned
C7_Witness ==
    /\ pc = "returned"
    /\ LastLogged("get_feeds_nomatch")
    /\ Kinds("error") # {}

\* C8 as stated: _should_check() answers True exactly when the file is missing,
\* its content is not a valid YYYY-MM-DD date, or its date is more than one day
\* before today.
C8_ShouldCheckStrict ==
    gate \in {"True", "False"} =>
        (gate = "True" <=>
            \/ file0.kind = "missing"
            \/ StrictDate(Strip(file0.content)) = None
            \/ /\ current_date # None
               /\ DaysBetween(current_date[1], StrictDate(Strip(file0.content))[1]) > 1)

\* C8 as amended: _should_check() answers True exactly when the file is missing,
\* its content stripped of surrounding whitespace is not accepted by the format
\* %Y-%m-%d (which also takes a month or day of one digit, or a day padded with
\* a space), or its date is two or more days before today; it answers False for
\* yesterday's date, today's and any later one.
C8_ShouldCheck ==
    gate \in {"True", "False"} =>
        LET file_date == IF file0.kind = "text" THEN Strptime(Strip(file0.content))
                         ELSE None
            days == DaysBetween(current_date[1], file_date[1])
        IN /\ file_date = None <=> current_date = None
           /\ file_date = None => gate = "True"
           /\ (file_date # None /\ days >= 2) => gate = "True"
           /\ (file_date # None /\ days <= 1) => gate = "False"

\* a file dated exactly one day before the day of the call throttled it
C8_Witness ==
    /\ gate = "False"
    /\ current_date # None
    /\ StrictDate(file0.content) # None
    /\ DaysBetween(current_date[1], StrictDate(file0.content)[1]) = 1

\* C9: when the directory or the file cannot be written after a completed
\* comparison, the error is caught in _update_last_checked: its warning follows
\* the version message already printed, the top-level error line is not
\* printed, and check_for_update() returns.
C9_SaveFailureNonFatal ==
    LastLogged("write_failed") =>
        /\ pc = "returned"
        /\ VersionMessages # {}
        /\ Kinds("warn_save") # {}
        /\ \A i \in VersionMessages, j \in Kinds("warn_save") : i < j
        /\ Kinds("error") = {}

\* the write failed after an upgrade was reported, and the call returned
C9_Witness ==
    /\ pc = "returned"
    /\ LastLogged("write_failed")
    /\ Kinds("upgrade") # {}
    /\ Kinds("warn_save") # {}

\* C10: the credential store is read and the connection built only by a call
\* that finds no cached client; a cached client is returned as it is, for the
\* rest of the instance's life, without a new credential lookup; and a call
\* whose credential resolution (or connection) fails leaves the client unset.
C10_ClientMemoized ==
    [][/\ (\E i \in (Len(log) + 1)..Len(log') :
               log'[i] \in {"get_credential", "connect"}) => feed_client = "None"
       /\ feed_client = "client" =>
               (feed_client' = "client" \/ (pc \in Boundary /\ pc' = "idle"))
       /\ (pc \in {"client_1", "client_2"} /\ pc' = "except") =>
               feed_client' = "None"
       /\ (pc = "client_2" /\ pc' = "get_feeds") =>
               (feed_client' = "client" /\ log' = log)]_vars

\* one check made both calls: one credential lookup, one connection
C10_Witness ==
    /\ pc = "get_feeds"
    /\ feed_client = "client"
    /\ log = <<"get_credential", "connect">>

====
